---- MODULE Spec2Model ----
(***************************************************************************)
(* Model of DataValidator (src/data-validator.py): duplicate detection by  *)
(* a registry keyed on str(record without 'id'), structural validation of  *)
(* name / address / zip, and the validate_file pass over a list of records.*)
(*                                                                         *)
(* Representation.  A Python dict is a sequence of <<key, value>> pairs in *)
(* insertion order with pairwise distinct keys.  A value is <<"str", cs>>  *)
(* (cs the sequence of its characters), <<"int", n>> or <<"none">>.  The   *)
(* characters used never need escaping in Python's repr().  A call result  *)
(* is a record whose field exc is "none" or the name of the raised         *)
(* exception class.                                                        *)
(***************************************************************************)
EXTENDS Integers, Sequences, FiniteSets, TLC

VARIABLES data, i, bad_records, records_seen, pc, exc, ret, branches,
          data2, bad_records2, records_seen2, branches2, zip_code

first == <<data, i, bad_records, records_seen, branches>>
second == <<data2, bad_records2, records_seen2, branches2>>
vars == <<data, i, bad_records, records_seen, pc, exc, ret, branches,
          data2, bad_records2, records_seen2, branches2, zip_code>>

(* ------------------------------ bounds --------------------------------- *)
MaxRecords == 3
MaxCalls == 3
MaxPair == 3
MaxZipLen == 10

(* ------------------------------ values --------------------------------- *)
None == <<"none">>
StrV(cs) == <<"str", cs>>
IntV(n) == <<"int", n>>

RECURSIVE Join(_)
Join(cs) == IF cs = <<>> THEN "" ELSE Head(cs) \o Join(Tail(cs))

\* repr() of a JSON scalar: quoted text, decimal digits, or None
repr(v) ==
  IF v[1] = "str" THEN "'" \o Join(v[2]) \o "'"
  ELSE IF v[1] = "int" THEN ToString(v[2])
  ELSE "None"

RECURSIVE dict_items(_)
dict_items(d) ==
  IF d = <<>> THEN ""
  ELSE "'" \o d[1][1] \o "': " \o repr(d[1][2])
       \o (IF Len(d) > 1 THEN ", " ELSE "") \o dict_items(Tail(d))

\* str() of a dict: items in insertion order
str(d) == "{" \o dict_items(d) \o "}"

keys(record) == {record[k][1] : k \in DOMAIN record}
getitem(record, key) ==
  record[CHOOSE k \in DOMAIN record : record[k][1] = key][2]

(* --------------------------- DataValidator ----------------------------- *)
\* variant: the id stays in the returned dict
remove_id_keeps_id(record) == record

remove_id(record) == SelectSeq(record, LAMBDA p : p[1] # "id")

record_string(record) == str(remove_id(record))

\* variant: the registry key is built from the whole record, id included
have_seen_keyed_with_id(record, seen) ==
  IF str(record) \in DOMAIN seen
  THEN [exc |-> "none", ret |-> TRUE, records_seen |-> seen]
  ELSE IF "id" \notin keys(record)
  THEN [exc |-> "KeyError", ret |-> FALSE, records_seen |-> seen]
  ELSE [exc |-> "none", ret |-> FALSE,
        records_seen |->
          [s \in DOMAIN seen \cup {str(record)} |->
             IF s = str(record) THEN getitem(record, "id") ELSE seen[s]]]

\* variant: the id is stored before the membership test, so a later record
\* overwrites the id of the first one
have_seen_overwrites(record, seen) ==
  IF "id" \notin keys(record)
  THEN [exc |-> "KeyError", ret |-> FALSE, records_seen |-> seen]
  ELSE [exc |-> "none", ret |-> record_string(record) \in DOMAIN seen,
        records_seen |->
          [s \in DOMAIN seen \cup {record_string(record)} |->
             IF s = record_string(record) THEN getitem(record, "id")
             ELSE seen[s]]]

have_seen(record, seen) ==
  IF record_string(record) \in DOMAIN seen
  THEN [exc |-> "none", ret |-> TRUE, records_seen |-> seen]
  ELSE IF "id" \notin keys(record)
  THEN [exc |-> "KeyError", ret |-> FALSE, records_seen |-> seen]
  ELSE [exc |-> "none", ret |-> FALSE,
        records_seen |->
          [s \in DOMAIN seen \cup {record_string(record)} |->
             IF s = record_string(record) THEN getitem(record, "id")
             ELSE seen[s]]]

\* variant: the empty string is not treated as blank
is_null_missing_blank_no_len(record, key) ==
  IF key \notin keys(record) THEN [exc |-> "none", ret |-> TRUE]
  ELSE IF getitem(record, key) = None THEN [exc |-> "none", ret |-> TRUE]
  ELSE [exc |-> "none", ret |-> FALSE]

is_null_missing_blank(record, key) ==
  IF key \notin keys(record) THEN [exc |-> "none", ret |-> TRUE]
  ELSE IF getitem(record, key) = None THEN [exc |-> "none", ret |-> TRUE]
  ELSE IF getitem(record, key)[1] = "int"
  THEN [exc |-> "TypeError", ret |-> FALSE]
  ELSE IF Len(getitem(record, key)[2]) = 0 THEN [exc |-> "none", ret |-> TRUE]
  ELSE [exc |-> "none", ret |-> FALSE]

AsciiDigits == {"0", "1", "2", "3", "4", "5", "6", "7", "8", "9"}
\* characters outside 0-9 for which str.isnumeric() is true
OtherNumerics == {"²"}
isnumeric(s) ==
  Len(s) > 0 /\ \A k \in DOMAIN s : s[k] \in AsciiDigits \cup OtherNumerics

RECURSIVE split(_, _)
split(s, sep) ==
  IF \A k \in DOMAIN s : s[k] # sep THEN <<s>>
  ELSE LET p == CHOOSE k \in DOMAIN s :
                  s[k] = sep /\ \A j \in 1..(k - 1) : s[j] # sep
       IN <<SubSeq(s, 1, p - 1)>> \o split(SubSeq(s, p + 1, Len(s)), sep)

valid_zip_code(z) ==
  IF isnumeric(z) /\ (Len(z) = 5 \/ Len(z) = 9) THEN TRUE
  ELSE IF \E k \in DOMAIN z : z[k] = "-"
  THEN LET a == split(z, "-")
       IN Len(a) = 2 /\ isnumeric(a[1]) /\ Len(a[1]) = 5
          /\ isnumeric(a[2]) /\ Len(a[2]) = 4
  ELSE FALSE

add_to_bad_records(record, bad) ==
  IF "id" \notin keys(record) THEN [exc |-> "KeyError", bad_records |-> bad]
  ELSE [exc |-> "none", bad_records |-> bad \cup {getitem(record, "id")}]

\* variant: the earlier record is looked up under the whole record, id
\* included, and is therefore never found
add_duplicate_to_bad_records_full_key(record, bad, seen) ==
  IF str(record) \in DOMAIN seen THEN bad \cup {seen[str(record)]} ELSE bad

add_duplicate_to_bad_records(record, bad, seen) ==
  IF record_string(record) \in DOMAIN seen
  THEN bad \cup {seen[record_string(record)]}
  ELSE bad

\* variant: the address check is left out
record_is_valid_no_address(record) ==
  IF "id" \notin keys(record) THEN [exc |-> "NoIDError", ret |-> FALSE]
  ELSE IF is_null_missing_blank(record, "name").exc # "none"
  THEN [exc |-> is_null_missing_blank(record, "name").exc, ret |-> FALSE]
  ELSE IF is_null_missing_blank(record, "name").ret
  THEN [exc |-> "none", ret |-> FALSE]
  ELSE IF is_null_missing_blank(record, "zip").exc # "none"
  THEN [exc |-> is_null_missing_blank(record, "zip").exc, ret |-> FALSE]
  ELSE IF is_null_missing_blank(record, "zip").ret
  THEN [exc |-> "none", ret |-> FALSE]
  ELSE [exc |-> "none", ret |-> valid_zip_code(getitem(record, "zip")[2])]

record_is_valid(record) ==
  IF "id" \notin keys(record) THEN [exc |-> "NoIDError", ret |-> FALSE]
  ELSE IF is_null_missing_blank(record, "name").exc # "none"
  THEN [exc |-> is_null_missing_blank(record, "name").exc, ret |-> FALSE]
  ELSE IF is_null_missing_blank(record, "name").ret
  THEN [exc |-> "none", ret |-> FALSE]
  ELSE IF is_null_missing_blank(record, "address").exc # "none"
  THEN [exc |-> is_null_missing_blank(record, "address").exc, ret |-> FALSE]
  ELSE IF is_null_missing_blank(record, "address").ret
  THEN [exc |-> "none", ret |-> FALSE]
  ELSE IF is_null_missing_blank(record, "zip").exc # "none"
  THEN [exc |-> is_null_missing_blank(record, "zip").exc, ret |-> FALSE]
  ELSE IF is_null_missing_blank(record, "zip").ret
  THEN [exc |-> "none", ret |-> FALSE]
  ELSE [exc |-> "none", ret |-> valid_zip_code(getitem(record, "zip")[2])]

\* variant: in the duplicate branch the earlier record is flagged before
\* the current one
validate_record_swapped(d, bad, seen) ==
  LET hs == have_seen(d, seen) IN
  IF hs.exc # "none"
  THEN [exc |-> hs.exc, branch |-> "none",
        bad_records |-> bad, records_seen |-> hs.records_seen]
  ELSE IF hs.ret
  THEN LET ab == add_to_bad_records(
                   d, add_duplicate_to_bad_records(d, bad, hs.records_seen))
       IN [exc |-> ab.exc, branch |-> "duplicate",
           bad_records |-> ab.bad_records, records_seen |-> hs.records_seen]
  ELSE LET rv == record_is_valid(d) IN
       IF rv.exc # "none"
       THEN [exc |-> rv.exc, branch |-> "none",
             bad_records |-> bad, records_seen |-> hs.records_seen]
       ELSE IF ~rv.ret
       THEN LET ab == add_to_bad_records(d, bad) IN
            [exc |-> ab.exc, branch |-> "invalid",
             bad_records |-> ab.bad_records, records_seen |-> hs.records_seen]
       ELSE [exc |-> "none", branch |-> "valid",
             bad_records |-> bad, records_seen |-> hs.records_seen]

\* body of the loop of validate_file for one element d of data
validate_record(d, bad, seen) ==
  LET hs == have_seen(d, seen) IN
  IF hs.exc # "none"
  THEN [exc |-> hs.exc, branch |-> "none",
        bad_records |-> bad, records_seen |-> hs.records_seen]
  ELSE IF hs.ret
  THEN LET ab == add_to_bad_records(d, bad) IN
       IF ab.exc # "none"
       THEN [exc |-> ab.exc, branch |-> "duplicate",
             bad_records |-> ab.bad_records, records_seen |-> hs.records_seen]
       ELSE [exc |-> "none", branch |-> "duplicate",
             bad_records |->
               add_duplicate_to_bad_records(d, ab.bad_records, hs.records_seen),
             records_seen |-> hs.records_seen]
  ELSE LET rv == record_is_valid(d) IN
       IF rv.exc # "none"
       THEN [exc |-> rv.exc, branch |-> "none",
             bad_records |-> bad, records_seen |-> hs.records_seen]
       ELSE IF ~rv.ret
       THEN LET ab == add_to_bad_records(d, bad) IN
            [exc |-> ab.exc, branch |-> "invalid",
             bad_records |-> ab.bad_records, records_seen |-> hs.records_seen]
       ELSE [exc |-> "none", branch |-> "valid",
             bad_records |-> bad, records_seen |-> hs.records_seen]

(* ------------------------------ inputs --------------------------------- *)
Z5 == <<"0", "0", "0", "0", "0">>
NoFn == [s \in {} |-> None]

Absent == <<"absent">>
WithId(content, id) == IF id = Absent THEN content
                       ELSE Append(content, <<"id", id>>)

Ids == {StrV(<<"1">>), StrV(<<"2">>), StrV(<<"3">>)}

Contents ==
  { <<<<"name", StrV(<<"0">>)>>, <<"address", StrV(<<"1">>)>>, <<"zip", StrV(Z5)>>>>,
    <<<<"address", StrV(<<"1">>)>>, <<"name", StrV(<<"0">>)>>, <<"zip", StrV(Z5)>>>>,
    <<<<"name", StrV(<<"0">>)>>, <<"address", None>>, <<"zip", StrV(Z5)>>>>,
    <<<<"name", StrV(<<"0">>)>>, <<"address", StrV(<<"1">>)>>,
      <<"zip", StrV(<<"0", "a", "0", "0", "0">>)>>>>,
    <<<<"name", IntV(0)>>, <<"address", StrV(<<"1">>)>>, <<"zip", StrV(Z5)>>>> }

Records == {WithId(c, id) : c \in Contents, id \in Ids \cup {Absent}}

RECURSIVE SeqsUpTo(_, _)
SeqsUpTo(S, n) ==
  IF n = 0 THEN {<<>>}
  ELSE SeqsUpTo(S, n - 1)
       \cup {Append(q, x) : q \in {p \in SeqsUpTo(S, n - 1) : Len(p) = n - 1},
                            x \in S}

(* --------------------- validate_file on one input ---------------------- *)
Idle2 == /\ data2 = <<>> /\ bad_records2 = {} /\ records_seen2 = NoFn
         /\ branches2 = <<>>

Init ==
  /\ data \in SeqsUpTo(Records, MaxRecords)
  /\ i = 1
  /\ bad_records = {}
  /\ records_seen = NoFn
  /\ pc = "loop"
  /\ exc = "none"
  /\ ret = <<>>
  /\ branches = <<>>
  /\ Idle2
  /\ zip_code = <<>>

ProcessRecord ==
  /\ pc = "loop"
  /\ i <= Len(data)
  /\ LET r == validate_record(data[i], bad_records, records_seen) IN
       /\ bad_records' = r.bad_records
       /\ records_seen' = r.records_seen
       /\ exc' = r.exc
       /\ IF r.exc = "none"
          THEN /\ i' = i + 1
               /\ branches' = Append(branches, r.branch)
               /\ pc' = "loop"
          ELSE /\ i' = i
               /\ branches' = branches
               /\ pc' = "raised"
  /\ UNCHANGED <<data, ret, second, zip_code>>

Finish ==
  /\ pc = "loop"
  /\ i > Len(data)
  /\ pc' = "done"
  /\ UNCHANGED <<first, exc, ret, second, zip_code>>

Next == ProcessRecord \/ Finish

Spec == Init /\ [][Next]_vars

(* ------------------- a sequence of have_seen calls --------------------- *)
NONE4 == <<"N", "o", "n", "e">>

FpContents ==
  { <<>>,
    <<<<"a", StrV(<<"0">>)>>>>,
    <<<<"a", IntV(0)>>>>,
    <<<<"a", None>>>>,
    <<<<"a", StrV(NONE4)>>>>,
    <<<<"a", StrV(<<"0">>)>>, <<"b", StrV(<<"1">>)>>>>,
    <<<<"b", StrV(<<"1">>)>>, <<"a", StrV(<<"0">>)>>>>,
    <<<<"a", IntV(0)>>, <<"b", StrV(<<"1">>)>>>> }

FpIds == {StrV(<<"3">>), StrV(<<"4">>)}

FpRecords ==
  FpContents
  \cup {Append(c, <<"id", id>>) : c \in FpContents, id \in FpIds}
  \cup {<<<<"id", id>>>> \o c : c \in FpContents, id \in FpIds}

InitSeen ==
  /\ data = <<>>
  /\ i = 1
  /\ bad_records = {}
  /\ records_seen = NoFn
  /\ pc = "calls"
  /\ exc = "none"
  /\ ret = <<>>
  /\ branches = <<>>
  /\ Idle2
  /\ zip_code = <<>>

\* one call of have_seen; data keeps the arguments of the calls made so far
CallHaveSeen ==
  /\ pc = "calls"
  /\ Len(data) < MaxCalls
  /\ \E r \in FpRecords :
       LET hs == have_seen(r, records_seen) IN
         /\ data' = Append(data, r)
         /\ records_seen' = hs.records_seen
         /\ exc' = hs.exc
         /\ ret' = IF hs.exc = "none" THEN <<hs.ret>> ELSE <<>>
  /\ UNCHANGED <<i, bad_records, pc, branches, second, zip_code>>

NextSeen == CallHaveSeen

SpecSeen == InitSeen /\ [][NextSeen]_vars

(* ---------------- the fingerprint of two records ----------------------- *)
InitFp ==
  /\ data \in {<<r1, r2>> : r1 \in FpRecords, r2 \in FpRecords}
  /\ i = 1
  /\ bad_records = {}
  /\ records_seen = NoFn
  /\ pc = "call"
  /\ exc = "none"
  /\ ret = <<>>
  /\ branches = <<>>
  /\ Idle2
  /\ zip_code = <<>>

ComputeFingerprints ==
  /\ pc = "call"
  /\ ret' = <<record_string(data[1]), record_string(data[2])>>
  /\ pc' = "returned"
  /\ UNCHANGED <<first, exc, second, zip_code>>

NextFp == ComputeFingerprints

SpecFp == InitFp /\ [][NextFp]_vars

(* ------------------- one call of record_is_valid ----------------------- *)
FieldOptions(key, values) ==
  {<<>>} \cup {<<<<key, v>>>> : v \in values}

ValidRecords ==
  { n \o a \o z \o d :
      n \in FieldOptions("name", {None, StrV(<<>>), StrV(<<"0">>), IntV(0)}),
      a \in FieldOptions("address", {None, StrV(<<>>), StrV(<<"1">>)}),
      z \in FieldOptions("zip", {None, StrV(<<>>), StrV(Z5),
                                 StrV(<<"0", "a", "0", "0", "0">>),
                                 StrV(Z5 \o <<"-", "0", "0", "0", "0">>)}),
      d \in FieldOptions("id", {StrV(<<"1">>)}) }

\* states of a validator that has processed no record or one blank record
SomeValidatorStates ==
  { [bad |-> {}, seen |-> NoFn],
    [bad |-> {StrV(<<"2">>)}, seen |-> [s \in {"{}"} |-> StrV(<<"2">>)]] }

InitValid ==
  /\ data \in {<<r>> : r \in ValidRecords}
  /\ i = 1
  /\ \E st \in SomeValidatorStates :
       bad_records = st.bad /\ records_seen = st.seen
  /\ pc = "call"
  /\ exc = "none"
  /\ ret = <<>>
  /\ branches = <<>>
  /\ Idle2
  /\ zip_code = <<>>

CallRecordIsValid ==
  /\ pc = "call"
  /\ LET rv == record_is_valid(data[1]) IN
       /\ exc' = rv.exc
       /\ ret' = IF rv.exc = "none" THEN <<rv.ret>> ELSE <<>>
  /\ pc' = "returned"
  /\ UNCHANGED <<first, second, zip_code>>

NextValid == CallRecordIsValid

SpecValid == InitValid /\ [][NextValid]_vars

(* --------------------- valid_zip_code on a text ------------------------ *)
ZipChars == {"0", "-", "a", "²"}

InitZip ==
  /\ data = <<>>
  /\ i = 1
  /\ bad_records = {}
  /\ records_seen = NoFn
  /\ pc = "typing"
  /\ exc = "none"
  /\ ret = <<>>
  /\ branches = <<>>
  /\ Idle2
  /\ zip_code = <<>>

TypeChar ==
  /\ pc = "typing"
  /\ Len(zip_code) < MaxZipLen
  /\ \E c \in ZipChars : zip_code' = Append(zip_code, c)
  /\ UNCHANGED <<first, pc, exc, ret, second>>

CallValidZipCode ==
  /\ pc = "typing"
  /\ ret' = <<valid_zip_code(zip_code)>>
  /\ pc' = "returned"
  /\ UNCHANGED <<first, exc, second, zip_code>>

NextZip == TypeChar \/ CallValidZipCode

SpecZip == InitZip /\ [][NextZip]_vars

(* --------- two validators on inputs that differ only in ids ------------ *)
PairContents ==
  { <<<<"name", StrV(<<"0">>)>>, <<"address", StrV(<<"1">>)>>, <<"zip", StrV(Z5)>>>>,
    <<<<"address", StrV(<<"1">>)>>, <<"name", StrV(<<"0">>)>>, <<"zip", StrV(Z5)>>>>,
    <<<<"name", StrV(<<"0">>)>>, <<"address", None>>, <<"zip", StrV(Z5)>>>>,
    <<<<"name", IntV(0)>>, <<"address", StrV(<<"1">>)>>, <<"zip", StrV(Z5)>>>> }

PairIds == {StrV(<<"1">>), StrV(<<"2">>)}

\* the inputs of equal length whose elements agree on everything except id
RECURSIVE PairsUpTo(_)
PairsUpTo(n) ==
  IF n = 0 THEN {<<<<>>, <<>>>>}
  ELSE PairsUpTo(n - 1)
       \cup {<<Append(q[1], WithId(c, x)), Append(q[2], WithId(c, y))>> :
               q \in {p \in PairsUpTo(n - 1) : Len(p[1]) = n - 1},
               c \in PairContents, x \in PairIds, y \in PairIds}

InitPair ==
  /\ \E q \in PairsUpTo(MaxPair) : data = q[1] /\ data2 = q[2]
  /\ i = 1
  /\ bad_records = {}
  /\ records_seen = NoFn
  /\ bad_records2 = {}
  /\ records_seen2 = NoFn
  /\ pc = "loop"
  /\ exc = "none"
  /\ ret = <<>>
  /\ branches = <<>>
  /\ branches2 = <<>>
  /\ zip_code = <<>>

\* both runs of validate_file take their i-th record
ProcessPair ==
  /\ pc = "loop"
  /\ i <= Len(data)
  /\ LET r1 == validate_record(data[i], bad_records, records_seen)
         r2 == validate_record(data2[i], bad_records2, records_seen2)
     IN /\ bad_records' = r1.bad_records
        /\ records_seen' = r1.records_seen
        /\ bad_records2' = r2.bad_records
        /\ records_seen2' = r2.records_seen
        /\ branches' = Append(branches,
                              IF r1.exc = "none" THEN r1.branch ELSE r1.exc)
        /\ branches2' = Append(branches2,
                               IF r2.exc = "none" THEN r2.branch ELSE r2.exc)
        /\ exc' = r1.exc
        /\ IF r1.exc = "none" /\ r2.exc = "none"
           THEN i' = i + 1 /\ pc' = "loop"
           ELSE i' = i /\ pc' = "raised"
  /\ UNCHANGED <<data, data2, ret, zip_code>>

FinishPair ==
  /\ pc = "loop"
  /\ i > Len(data)
  /\ pc' = "done"
  /\ UNCHANGED <<first, exc, ret, second, zip_code>>

NextPair == ProcessPair \/ FinishPair

SpecPair == InitPair /\ [][NextPair]_vars

(* ------ the registry under validate_file and under have_seen calls ----- *)
InitRegistry == Init \/ InitSeen

NextRegistry == ProcessRecord \/ Finish \/ CallHaveSeen

SpecRegistry == InitRegistry /\ [][NextRegistry]_vars

(* ------------------------- vocabulary of the claims -------------------- *)
has_id(r) == "id" \in keys(r)
id_of(r) == getitem(r, "id")
AllHaveId(d) == \A k \in DOMAIN d : has_id(d[k])
Occurrences(d, fp) == Cardinality({k \in DOMAIN d : record_string(d[k]) = fp})

\* name, address and zip are each absent, null or a string
TextFields(r) ==
  \A key \in {"name", "address", "zip"} :
    key \in keys(r) => getitem(r, key)[1] \in {"str", "none"}

\* key is present, holds a string, and the string is not empty
Filled(r, key) ==
  /\ key \in keys(r)
  /\ getitem(r, key)[1] = "str"
  /\ getitem(r, key)[2] # <<>>

StructurallyValid(r) ==
  /\ Filled(r, "name") /\ Filled(r, "address") /\ Filled(r, "zip")
  /\ valid_zip_code(getitem(r, "zip")[2])

\* number of elements of data that validate_file has worked on
Reached == IF i <= Len(data) THEN i ELSE Len(data)

\* number of records handed to have_seen so far, by validate_file or directly
Processed == IF pc = "calls" THEN Len(data) ELSE Reached

(* C1: after validate_file has processed an input whose records all have  *)
(* an id, the id of every record whose fingerprint occurs two or more     *)
(* times is in bad_records, the first occurrence included.                *)
C1_AllOccurrencesBad ==
  (pc = "done" /\ AllHaveId(data)) =>
    \A j \in DOMAIN data : \A k \in DOMAIN data :
      (j # k /\ record_string(data[j]) = record_string(data[k]))
        => id_of(data[j]) \in bad_records

C1_Witness ==
  /\ pc = "done" /\ Len(data) = 3 /\ AllHaveId(data)
  /\ \A k \in 1..3 : record_string(data[k]) = record_string(data[1])
  /\ StructurallyValid(data[1])
  /\ Cardinality({id_of(data[k]) : k \in 1..3}) = 3
  /\ bad_records = {id_of(data[k]) : k \in 1..3}

(* C2: for an input whose records all have an id and text-or-null name,   *)
(* address and zip, bad_records after the run is exactly the ids of the   *)
(* records whose fingerprint occurs at least twice together with the ids  *)
(* of the records whose fingerprint occurs once and that are not          *)
(* structurally valid.                                                    *)
C2_ExactBadSet ==
  (pc = "done" /\ AllHaveId(data) /\ \A k \in DOMAIN data : TextFields(data[k]))
    => bad_records =
         {id_of(data[k]) : k \in {j \in DOMAIN data :
              Occurrences(data, record_string(data[j])) >= 2}}
         \cup
         {id_of(data[k]) : k \in {j \in DOMAIN data :
              /\ Occurrences(data, record_string(data[j])) = 1
              /\ ~StructurallyValid(data[j])}}

C2_Witness ==
  /\ pc = "done" /\ Len(data) = 3 /\ AllHaveId(data)
  /\ \A k \in DOMAIN data : TextFields(data[k])
  /\ \E u \in 1..3 :
       /\ Occurrences(data, record_string(data[u])) = 1
       /\ StructurallyValid(data[u])
       /\ id_of(data[u]) \notin bad_records
       /\ \E v \in 1..3 :
            /\ Occurrences(data, record_string(data[v])) = 1
            /\ ~StructurallyValid(data[v])
            /\ id_of(data[v]) \in bad_records

(* C3: when validate_file reaches a record without an id, the run fails   *)
(* with NoIDError.                                                        *)
C3_MissingIdRaisesNoIDError ==
  (pc = "raised" /\ ~has_id(data[i])) => exc = "NoIDError"

(* C9 (as stated): during a validate_file run and after any sequence of   *)
(* have_seen calls, records_seen maps every registered fingerprint to the *)
(* id of the first record, in processing order, that produced it; entries *)
(* are never removed and a stored id never changes.                       *)
C9_FirstOccurrence ==
  \A fp \in DOMAIN records_seen :
    \E k \in 1..Processed :
      /\ record_string(data[k]) = fp
      /\ \A j \in 1..(k - 1) : record_string(data[j]) # fp
      /\ has_id(data[k])
      /\ records_seen[fp] = id_of(data[k])

C9_AddOnly ==
  \A fp \in DOMAIN records_seen :
    fp \in DOMAIN records_seen' /\ records_seen'[fp] = records_seen[fp]

C9_RegistryKeepsFirstId == [](C9_FirstOccurrence) /\ [][C9_AddOnly]_vars

(* C9 (amended): during a validate_file run and after any sequence of     *)
(* have_seen calls, records_seen maps every registered fingerprint to the *)
(* id of the first record, in processing order, that has an id and        *)
(* produced that fingerprint; entries are never removed and a stored id   *)
(* never changes.                                                         *)
C9_FirstOccurrenceWithId ==
  \A fp \in DOMAIN records_seen :
    \E k \in 1..Processed :
      /\ record_string(data[k]) = fp
      /\ has_id(data[k])
      /\ \A j \in 1..(k - 1) :
           record_string(data[j]) = fp => ~has_id(data[j])
      /\ records_seen[fp] = id_of(data[k])

C9_RegistryKeepsFirstIdWithId ==
  [](C9_FirstOccurrenceWithId) /\ [][C9_AddOnly]_vars

\* an id-less call, then the same content with an id, then the same content
\* with another id: the registry holds the id of the second call
C9_Witness ==
  /\ pc = "calls" /\ Len(data) = 3
  /\ \A k \in 1..3 : record_string(data[k]) = record_string(data[1])
  /\ ~has_id(data[1]) /\ has_id(data[2]) /\ has_id(data[3])
  /\ id_of(data[2]) # id_of(data[3])
  /\ ret = <<TRUE>>
  /\ records_seen[record_string(data[1])] = id_of(data[2])

(* C10: a record without an id aborts the run and contributes nothing:    *)
(* records_seen and bad_records stay exactly as they were after the       *)
(* preceding record.                                                      *)
C10_MissingIdLeavesStateAlone ==
  [][(pc = "loop" /\ i <= Len(data) /\ ~has_id(data[i]))
       => /\ pc' = "raised"
          /\ i' = i
          /\ records_seen' = records_seen
          /\ bad_records' = bad_records]_vars

C10_Witness ==
  /\ pc = "raised" /\ ~has_id(data[i])
  /\ record_string(data[i]) \in DOMAIN records_seen
  /\ records_seen[record_string(data[i])] \notin bad_records
  /\ bad_records # {}

(* C4: two records have equal fingerprints if and only if, id removed,    *)
(* they have the same keys and under every key the same value of the same *)
(* type, whatever the order in which the keys were inserted.              *)
SameContent(r1, r2) ==
  /\ keys(r1) \ {"id"} = keys(r2) \ {"id"}
  /\ \A key \in keys(r1) \ {"id"} : getitem(r1, key) = getitem(r2, key)

C4_FingerprintIffSameContent ==
  pc = "returned" => ((ret[1] = ret[2]) <=> SameContent(data[1], data[2]))

(* C5: on records that have an id, have_seen returns false exactly when   *)
(* no earlier call had a record with an equal fingerprint and then adds   *)
(* the one entry fingerprint -> id; otherwise it returns true and leaves  *)
(* records_seen unchanged.  bad_records is never modified.                *)
C5_Call ==
  (data' # data /\ AllHaveId(data')) =>
    LET r == data'[Len(data')]
        fp == record_string(r)
    IN /\ exc' = "none"
       /\ ret' \in {<<TRUE>>, <<FALSE>>}
       /\ (ret' = <<FALSE>>)
            <=> (\A k \in DOMAIN data : record_string(data[k]) # fp)
       /\ (ret' = <<FALSE>>) =>
            /\ fp \notin DOMAIN records_seen
            /\ DOMAIN records_seen' = DOMAIN records_seen \cup {fp}
            /\ records_seen'[fp] = id_of(r)
            /\ \A s \in DOMAIN records_seen : records_seen'[s] = records_seen[s]
       /\ (ret' = <<TRUE>>) => records_seen' = records_seen
       /\ bad_records' = bad_records

C5_HaveSeenFirstThenDuplicate == [][C5_Call]_vars

C5_Witness ==
  /\ pc = "calls" /\ Len(data) = 3 /\ AllHaveId(data)
  /\ record_string(data[3]) = record_string(data[1])
  /\ record_string(data[2]) # record_string(data[1])
  /\ id_of(data[3]) # id_of(data[1])
  /\ ret = <<TRUE>>
  /\ DOMAIN records_seen = {record_string(data[1]), record_string(data[2])}
  /\ records_seen[record_string(data[3])] = id_of(data[1])

(* C6: valid_zip_code accepts a text if and only if it is 5 ASCII digits, *)
(* 9 ASCII digits, or 5 ASCII digits, a hyphen and 4 ASCII digits.        *)
AllAsciiDigits(s) == \A k \in DOMAIN s : s[k] \in AsciiDigits

AsciiZipFormat(z) ==
  \/ Len(z) \in {5, 9} /\ AllAsciiDigits(z)
  \/ /\ Len(z) = 10
     /\ z[6] = "-"
     /\ AllAsciiDigits(SubSeq(z, 1, 5))
     /\ AllAsciiDigits(SubSeq(z, 7, 10))

C6_ZipIffAsciiFormat ==
  pc = "returned" => (ret = <<TRUE>> <=> AsciiZipFormat(zip_code))

(* C7: record_is_valid raises NoIDError when the record has no id; on a   *)
(* record with an id and text-or-null name, address and zip it returns,   *)
(* without an error, whether all three are present, non-null, non-empty   *)
(* and the zip is accepted by valid_zip_code.  It changes neither         *)
(* records_seen nor bad_records.                                          *)
C7_Call ==
  pc = "call" =>
    /\ pc' = "returned"
    /\ ~has_id(data[1]) => exc' = "NoIDError"
    /\ (has_id(data[1]) /\ TextFields(data[1])) =>
         (exc' = "none" /\ ret' = <<StructurallyValid(data[1])>>)
    /\ records_seen' = records_seen
    /\ bad_records' = bad_records

C7_RecordIsValid == [][C7_Call]_vars

C7_Witness ==
  /\ pc = "returned" /\ exc = "none" /\ ret = <<FALSE>>
  /\ has_id(data[1])
  /\ Filled(data[1], "name") /\ Filled(data[1], "address")
  /\ "zip" \in keys(data[1]) /\ getitem(data[1], "zip") = StrV(<<>>)
  /\ bad_records # {}

(* C8: two validators whose inputs agree on everything except the values  *)
(* of id take the same branch at every position and register the same     *)
(* fingerprints.                                                          *)
C8_IdValueIrrelevant ==
  /\ branches = branches2
  /\ DOMAIN records_seen = DOMAIN records_seen2

C8_Witness ==
  /\ pc = "done" /\ Len(data) = 3
  /\ \A k \in 1..3 : id_of(data[k]) # id_of(data2[k])
  /\ bad_records # bad_records2
  /\ \E j \in 1..3 : branches[j] = "duplicate"
  /\ \E j \in 1..3 : branches[j] = "valid"

====
